---- MODULE Spec2Model ----
(***************************************************************************)
(* Model of wakitsu's "watch" command: watchAnime resolves a cached anime  *)
(* and a fansub file, sends the progress to Kitsu, writes the cache and    *)
(* the file binding back and moves the file into the watched directory.   *)
(*                                                                         *)
(* Strings are sequences of one-character strings, so that toLowerCase,   *)
(* includes, substring and the file-name regular expressions are computed *)
(* as the code computes them.                                              *)
(***************************************************************************)
EXTENDS Integers, Sequences, FiniteSets, TLC

\* ------------------------------------------------------------------ bounds

\* Invocations of the command in one behaviour.
MaxRuns == 2

\* ----------------------------------------------------- JavaScript values

\* Number(...) of a string that is not numeric.
NaN == -1
\* null / undefined where a number is expected (episodeCount of the reply).
Null == -2
\* undefined where a string is expected (no file binding).
Undefined == <<"undefined">>

\* ---------------------------------------------------------------- strings

UpperChars == <<"A","B","C","D","E","F","G","H","I","J","K","L","M",
                "N","O","P","Q","R","S","T","U","V","W","X","Y","Z">>
LowerChars == <<"a","b","c","d","e","f","g","h","i","j","k","l","m",
                "n","o","p","q","r","s","t","u","v","w","x","y","z">>
Digits == <<"0","1","2","3","4","5","6","7","8","9">>

IsDigit(c) == \E i \in 1..10 : Digits[i] = c
IsSpace(c) == c = " "
\* \w of a regular expression under the i flag.
IsWord(c) ==
    \/ \E i \in 1..26 : UpperChars[i] = c \/ LowerChars[i] = c
    \/ IsDigit(c)
    \/ c = "_"

LowerChar(c) ==
    IF \E i \in 1..26 : UpperChars[i] = c
    THEN LowerChars[CHOOSE i \in 1..26 : UpperChars[i] = c]
    ELSE c

\* String.prototype.toLowerCase
ToLowerCase(s) == [i \in 1..Len(s) |-> LowerChar(s[i])]

\* String.prototype.includes: t occurs in s as a contiguous substring.
Includes(s, t) ==
    \E i \in 0..(Len(s) - Len(t)) : SubSeq(s, i + 1, i + Len(t)) = t

\* String.prototype.substring(from, to) with 0-based, end-exclusive indices;
\* negative arguments count as 0.
Substring(s, from, to) ==
    LET f == IF from < 0 THEN 0 ELSE from
        t == IF to < 0 THEN 0 ELSE to
    IN  SubSeq(s, (IF f < t THEN f ELSE t) + 1, IF f < t THEN t ELSE f)

DigitValue(c) == (CHOOSE i \in 1..10 : Digits[i] = c) - 1

RECURSIVE DecimalValue(_)
DecimalValue(s) ==
    IF s = <<>> THEN 0
    ELSE 10 * DecimalValue(SubSeq(s, 1, Len(s) - 1)) + DigitValue(s[Len(s)])

\* Number(str) for the strings the command line hands over: the empty
\* string is 0, a run of digits its decimal value, anything else NaN.
ToNumber(s) ==
    IF \A i \in 1..Len(s) : IsDigit(s[i]) THEN DecimalValue(s) ELSE NaN

\* JavaScript truthiness of a number (0 and NaN are falsy).
TruthyNumber(n) == n # 0 /\ n # NaN

\* ------------------------------------------------- fansub file-name parser

\* The character class [\w|\d|\s-] of the release-group tag.
IsTagChar(c) == IsWord(c) \/ c = "|" \/ IsSpace(c) \/ c = "-"

\* /^\[([\w|\d|\s-]+)\]/ : the index of the "]" that closes the leading
\* tag, 0 when the name does not start with a bracketed tag.
TagEnd(name) ==
    LET ends == {j \in 3..Len(name) :
                    /\ name[j] = "]"
                    /\ \A k \in 2..(j - 1) : IsTagChar(name[k])}
    IN  IF Len(name) >= 3 /\ name[1] = "[" /\ ends # {}
        THEN CHOOSE j \in ends : TRUE
        ELSE 0

\* [0-9]{n} at position q.
DigitRun(name, q, n) ==
    /\ q + n - 1 <= Len(name)
    /\ \A k \in q..(q + n - 1) : IsDigit(name[k])

\* (\s|\.) at position p.
Terminator(name, p) ==
    p <= Len(name) /\ (IsSpace(name[p]) \/ name[p] = ".")

CharIs(name, p, lower, upper) ==
    p <= Len(name) /\ (name[p] = lower \/ name[p] = upper)

Max(S) == CHOOSE x \in S : \A y \in S : y <= x

\* The episode token ([0-9]{2,4}|S([0-9]{2})E([0-9]{2,4})|[0-9]{2,4}v[0-9])
\* followed by (\s|\.), tried at position q in the order of the alternation,
\* each quantifier greedy. kind 0 means no match.
EpisodeToken(name, q) ==
    LET plain == {n \in 2..4 : DigitRun(name, q, n) /\ Terminator(name, q + n)}
        alt   == {n \in 2..4 :
                    /\ CharIs(name, q, "s", "S")
                    /\ DigitRun(name, q + 1, 2)
                    /\ CharIs(name, q + 3, "e", "E")
                    /\ DigitRun(name, q + 4, n)
                    /\ Terminator(name, q + 4 + n)}
        vers  == {n \in 2..4 :
                    /\ DigitRun(name, q, n)
                    /\ CharIs(name, q + n, "v", "V")
                    /\ DigitRun(name, q + n + 1, 1)
                    /\ Terminator(name, q + n + 2)}
    IN  IF plain # {}
        THEN [kind |-> 1, epNumP |-> SubSeq(name, q, q + Max(plain) - 1),
              seasonAlt |-> Undefined, epNumAlt |-> Undefined]
        ELSE IF alt # {}
        THEN [kind |-> 2, epNumP |-> SubSeq(name, q, q + 3 + Max(alt)),
              seasonAlt |-> SubSeq(name, q + 1, q + 2),
              epNumAlt |-> SubSeq(name, q + 4, q + 3 + Max(alt))]
        ELSE IF vers # {}
        THEN [kind |-> 3, epNumP |-> SubSeq(name, q, q + Max(vers) + 1),
              seasonAlt |-> Undefined, epNumAlt |-> Undefined]
        ELSE [kind |-> 0, epNumP |-> Undefined,
              seasonAlt |-> Undefined, epNumAlt |-> Undefined]

\* (\sS[0-9]{1,2})?\s(token)(\s|\.) at position p, the optional season
\* group tried first and with two digits before one. n is the number of
\* season digits matched, 0 for the group left out, -1 for no match.
SeasonDigits(name, p) ==
    LET with == {n \in 1..2 :
                    /\ p <= Len(name) /\ IsSpace(name[p])
                    /\ CharIs(name, p + 1, "s", "S")
                    /\ DigitRun(name, p + 2, n)
                    /\ p + 2 + n <= Len(name) /\ IsSpace(name[p + 2 + n])
                    /\ EpisodeToken(name, p + 3 + n).kind # 0}
    IN  IF with # {} THEN Max(with)
        ELSE IF /\ p <= Len(name) /\ IsSpace(name[p])
                /\ EpisodeToken(name, p + 1).kind # 0
        THEN 0
        ELSE -1

\* fansubRegEx.exec(name): the capture groups, or ok = FALSE for null.
\* (.+) is greedy: the title is the longest one the rest can follow.
FansubRegExExec(name) ==
    LET te    == TagEnd(name)
        ts    == te + 2
        ends  == {e \in ts..Len(name) : SeasonDigits(name, e + 1) >= 0}
    IN  IF te = 0 \/ ~(te + 1 <= Len(name) /\ IsSpace(name[te + 1])) \/ ends = {}
        THEN [ok |-> FALSE]
        ELSE LET e   == Max(ends)
                 sd  == SeasonDigits(name, e + 1)
                 tok == EpisodeToken(name, IF sd = 0 THEN e + 2 ELSE e + 4 + sd)
             IN  [ok        |-> TRUE,
                  fansub    |-> SubSeq(name, 2, te - 1),
                  title     |-> SubSeq(name, ts, e),
                  seasonP   |-> IF sd = 0 THEN Undefined
                                ELSE SubSeq(name, e + 1, e + 2 + sd),
                  epNumP    |-> tok.epNumP,
                  seasonAlt |-> tok.seasonAlt,
                  epNumAlt  |-> tok.epNumAlt]

\* epNumP.split('v')[0]
BeforeFirstV(s) ==
    LET vs == {i \in 1..Len(s) : s[i] = "v"}
    IN  IF vs = {} THEN s
        ELSE SubSeq(s, 1, (CHOOSE i \in vs : \A j \in vs : i <= j) - 1)

SerializeFansubFilename(parts) ==
    LET title == parts.title
        alt   == parts.seasonAlt # Undefined /\ parts.seasonAlt # <<>>
    IN  [fansub      |-> parts.fansub,
         title       |-> IF Len(title) > 0 /\ title[Len(title)] = "-"
                         THEN Substring(title, 0, Len(title) - 2)
                         ELSE title,
         epNum       |-> IF alt THEN ToNumber(parts.epNumAlt)
                         ELSE ToNumber(parts.epNumP),
         paddedEpNum |-> IF alt THEN parts.epNumAlt
                         ELSE IF Includes(parts.epNumP, <<"v">>)
                              THEN BeforeFirstV(parts.epNumP)
                              ELSE parts.epNumP,
         season      |-> IF alt THEN parts.seasonAlt ELSE parts.seasonP]

\* parseFansubFilename: the parsed data of a name the expression matches.
ParseFansubFilename(name) ==
    LET parts == FansubRegExExec(name)
    IN  IF parts.ok
        THEN [ok |-> TRUE, data |-> SerializeFansubFilename(parts)]
        ELSE [ok |-> FALSE,
              batch |-> \/ Includes(ToLowerCase(name), <<"(","b","a","t","c","h",")">>)
                        \/ Includes(ToLowerCase(name), <<"[","b","a","t","c","h","]">>)]

\* ------------------------------------------------------ the modelled world

\* Names in the working directory.
FileA07   == <<"[","G","]"," ","A"," ","-"," ","0","7",".","m","k","v">>
FileB07   == <<"[","G","]"," ","B"," ","-"," ","0","7",".","m","k","v">>
FileAS08  == <<"[","G","]"," ","A"," ","S","2"," ","-"," ","0","8",".","m","k","v">>
FileCd07  == <<"[","G","]"," ","C","d"," ","-"," ","0","7",".","m","k","v">>
FileHCd07 == <<"[","H","]"," ","C","d"," ","-"," ","0","7",".","m","k","v">>
FileCe12  == <<"[","G","]"," ","C","e"," ","-"," ","1","2",".","m","k","v">>
FileCe112 == <<"[","G","]"," ","C","e"," ","-"," ","1","1","2",".","m","k","v">>
\* No blank after the tag: the file filter takes the name, the parser's
\* expression does not match it.
FileCe08  == <<"[","G","]","C","e"," ","-"," ","0","8",".","m","k","v">>
\* No release-group tag.
FileNoTag == <<"A"," ","-"," ","0","7",".","m","k","v">>
\* A subdirectory of the working directory, not a regular file.
SubDirA07 == <<"[","G","]"," ","A"," ","-"," ","0","7"," ","e","x","t","r","a","s">>
WatchedName == <<"w","a","t","c","h","e","d">>

InitialFiles ==
    {FileA07, FileB07, FileAS08, FileCd07, FileHCd07, FileCe12, FileCe112,
     FileCe08, FileNoTag}
SubDirs == {SubDirA07}

LibIDs == {"1", "2", "3"}

\* The cache the external refresh has seeded (KitsuCacheItem).
InitialCache ==
    << [libID |-> "1", jpTitle |-> <<"A">>, enTitle |-> <<>>,
        synonyms |-> {}, epProgress |-> 6, epCount |-> 7],
       [libID |-> "2", jpTitle |-> <<"C","d">>, enTitle |-> <<"X","y">>,
        synonyms |-> {}, epProgress |-> 0, epCount |-> 0],
       [libID |-> "3", jpTitle |-> <<"C","e">>, enTitle |-> <<>>,
        synonyms |-> {<<"Q","r">>, <<"C","e","e">>}, epProgress |-> 11, epCount |-> 12] >>

NoBindings == [id \in LibIDs |-> Undefined]
\* The file bindings an earlier season of runs has left behind.
InitialBindings ==
    {NoBindings, [NoBindings EXCEPT !["1"] = <<"a">>]}

\* Command-line inputs.
EpNames ==
    {<<"a">>, <<"c">>, <<"c","d">>, <<"c","e">>, <<"z">>, <<"A">>, <<"q">>, <<"x">>}
FileEpNumStrs == {<<"7">>, <<"0","8">>, <<"1","2">>}
ForcedEpNumStrs == {<<>>, <<"0">>, <<"2">>}

\* What Kitsu may answer to a progress patch: the progress sent with the
\* episode count, null while Kitsu does not know it, or 0 of 0 episodes.
RemoteReplies(target) ==
    {[progress |-> target, episodeCount |-> c] : c \in {Null, 7}}
        \cup {[progress |-> 0, episodeCount |-> 0]}

\* ------------------------------------------------------------------- state

VARIABLES
    config,          \* Config in memory: [cache, fileBindings]
    saved,           \* the configuration file on disk
    remote,          \* progress of each library entry at Kitsu
    workingDir,      \* regular files of the working directory
    watchedDir,      \* [exists, files] of workingDir/watched
    pc,              \* position of the running invocation
    outcome,         \* how the invocation ended
    args,            \* [epName, fileEpNumStr, forcedEpNumStr]
    cachedAnime,     \* watchAnime: the filtered cache
    validAnime,      \* the clone validateCachedAnime returns
    cacheIndex,      \* its index in the cache (1-based here)
    fileTitle,       \* the term the files are filtered with
    fansubFileNames, \* the filtered file names
    patch,           \* arguments of the last Kitsu.updateAnime call
    reply,           \* its answer
    errorChain,      \* titles listed by the last error
    updateCalls,     \* Kitsu.updateAnime calls of this invocation
    mkdirCalled,     \* tryCreateWatchedDir created the directory
    pre,             \* the persisted state when the invocation started
    runs,            \* invocations finished
    release,         \* parts of the file name handed to parseFansubFilename
    parsed           \* what parseFansubFilename returned for it

frame == <<cachedAnime, validAnime, cacheIndex, fileTitle, fansubFileNames>>
world == <<remote, workingDir, watchedDir>>
vars == <<config, saved, remote, workingDir, watchedDir, pc, outcome, args,
          cachedAnime, validAnime, cacheIndex, fileTitle, fansubFileNames,
          patch, reply, errorChain, updateCalls, mkdirCalled, pre, runs,
          release, parsed>>
parser == <<release, parsed>>

NoAnime == [libID |-> "", jpTitle |-> <<>>, enTitle |-> <<>>,
            synonyms |-> {}, epProgress |-> 0, epCount |-> 0]
NoArgs == [epName |-> <<>>, fileEpNumStr |-> <<>>, forcedEpNumStr |-> <<>>]
NoPatch == [id |-> "", progress |-> 0]
NoReply == [progress |-> 0, episodeCount |-> Null]

NoRelease == [fansub |-> <<>>, title |-> <<>>, token |-> <<>>, tail |-> <<>>]
NoParse == [ok |-> FALSE, pending |-> TRUE]

Snapshot ==
    [saved |-> saved, remote |-> remote, workingDir |-> workingDir,
     watchedDir |-> watchedDir]

ConfigInit ==
    /\ \E b \in InitialBindings :
          /\ config = [cache |-> InitialCache, fileBindings |-> b]
          /\ saved = [cache |-> InitialCache, fileBindings |-> b]
    /\ remote = [id \in LibIDs |->
                    (CHOOSE a \in {InitialCache[i] : i \in 1..Len(InitialCache)} :
                        a.libID = id).epProgress]
    /\ workingDir = InitialFiles
    /\ watchedDir = [exists |-> FALSE, files |-> {}]
    /\ pc = "idle"
    /\ outcome = "none"
    /\ args = NoArgs
    /\ cachedAnime = <<>>
    /\ validAnime = NoAnime
    /\ cacheIndex = 0
    /\ fileTitle = Undefined
    /\ fansubFileNames = <<>>
    /\ patch = NoPatch
    /\ reply = NoReply
    /\ errorChain = <<>>
    /\ updateCalls = 0
    /\ mkdirCalled = FALSE
    /\ pre = [saved |-> saved, remote |-> remote, workingDir |-> workingDir,
              watchedDir |-> watchedDir]
    /\ runs = 0

Init ==
    /\ ConfigInit
    /\ release = NoRelease
    /\ parsed = NoParse

\* -------------------------------------------------------- collaborators

\* Kitsu.getFileBinding: the binding of a library entry, or undefined.
GetFileBinding(cfg, libID) == cfg.fileBindings[libID]

\* Kitsu.setFileBinding
SetFileBinding(cfg, libID, title) ==
    [cfg EXCEPT !.fileBindings[libID] = title]

\* Kitsu.removeAnimeFromCache(anime, { saveConfig: false })
RemoveAnimeFromCache(cfg, anime) ==
    [cfg EXCEPT !.cache = SelectSeq(cfg.cache, LAMBDA c : c.libID # anime.libID)]

\* JavaScript truthiness of a string or undefined.
TruthyString(s) == s # Undefined /\ s # <<>>

\* ----------------------------------------------------------- watchAnime

\* mkdirSync on every call, the watched directory coming out empty.
TryCreateWatchedDirAlways(watched) ==
    [created |-> TRUE, dir |-> [exists |-> TRUE, files |-> {}]]

\* tryCreateWatchedDir: the directory is made only when existsSync says it
\* is not there; what it holds is not touched.
TryCreateWatchedDir(watched) ==
    [created |-> ~watched.exists, dir |-> [watched EXCEPT !.exists = TRUE]]

\* The predicate of Kitsu.animeCache.filter in watchAnime.
AnimeMatches(anime, epName) ==
    \/ Includes(ToLowerCase(anime.jpTitle), epName)
    \/ Includes(ToLowerCase(anime.enTitle), epName)
    \/ \E syn \in anime.synonyms : Includes(ToLowerCase(syn), epName)

FilterCache(cache, epName) ==
    SelectSeq(cache, LAMBDA anime : AnimeMatches(anime, epName))

\* Mutant of ValidateCachedAnime: several matches take the first one.
ValidateCachedAnimeFirst(filtered) ==
    IF Len(filtered) = 0 THEN "EntryNotFound" ELSE "valid"

\* validateCachedAnime: which of its three ways the filtered cache takes.
ValidateCachedAnime(filtered) ==
    IF Len(filtered) = 0 THEN "EntryNotFound"
    ELSE IF Len(filtered) > 1 THEN "AmbiguousEntries"
    ELSE "valid"

\* Config.getKitsuProp('cache').findIndex((c) => c == cache[0]), 1-based.
FindIndex(cache, anime) ==
    LET hits == {i \in 1..Len(cache) : cache[i] = anime}
    IN  IF hits = {} THEN 0 ELSE CHOOSE i \in hits : \A j \in hits : i <= j

\* The titles the "Multiple Cached Titles Found" error lists.
EntryErrorChain(filtered) == [i \in 1..Len(filtered) |-> filtered[i].jpTitle]

\* Mutant of FileTitle: the binding is ignored.
FileTitleRaw(cfg, anime, epName) == epName

\* Kitsu.getFileBinding(validAnime.libID) ?? epName
FileTitle(cfg, anime, epName) ==
    IF GetFileBinding(cfg, anime.libID) # Undefined
    THEN GetFileBinding(cfg, anime.libID)
    ELSE epName

\* readdirSync(workingDir, { withFileTypes: true })
ReadDir(files, watched) ==
    {[name |-> f, isFile |-> TRUE] : f \in files}
        \cup {[name |-> d, isFile |-> FALSE] : d \in SubDirs}
        \cup (IF watched.exists THEN {[name |-> WatchedName, isFile |-> FALSE]}
              ELSE {})

\* Mutant of EpNumSyntax: no zero padding of a one-character number.
EpNumSyntaxUnpadded(epNum) == <<"-", " ">> \o epNum

\* The episode token filterFansubFilenames looks for.
EpNumSyntax(epNum) ==
    IF Len(epNum) = 1 THEN <<"-", " ", "0">> \o epNum ELSE <<"-", " ">> \o epNum

\* The predicate of the name filter in filterFansubFilenames.
FansubNameMatches(name, epName, epNum) ==
    /\ TagEnd(name) # 0
    /\ Includes(ToLowerCase(name), epName)
    /\ Includes(name, EpNumSyntax(epNum))

\* filterFansubFilenames, as the set of the names it returns.
FilterFansubFilenames(entries, epName, epNum) ==
    {e.name : e \in {d \in entries : d.isFile /\ FansubNameMatches(d.name, epName, epNum)}}

\* Mutant of ValidateFansubFilenames: several files take the first one.
ValidateFansubFilenamesFirst(listing) ==
    IF Len(listing) = 0 THEN "FileNotFound" ELSE "valid"

\* The two length checks of watchAnime on the filtered file names.
ValidateFansubFilenames(listing) ==
    IF Len(listing) = 0 THEN "FileNotFound"
    ELSE IF Len(listing) > 1 THEN "AmbiguousFiles"
    ELSE "valid"

\* displayErrorTooManyFiles: the parsed title of every file name (the
\* modelled titles are shorter than the 60 characters truncateStr keeps).
FileErrorChain(listing) ==
    [i \in 1..Len(listing) |->
        IF ParseFansubFilename(listing[i]).ok
        THEN ParseFansubFilename(listing[i]).data.title
        ELSE Undefined]

\* The orders in which the directory listing can yield a set of names.
Listings(names) ==
    {q \in [1..Cardinality(names) -> names] : \A n \in names : \E i \in DOMAIN q : q[i] = n}

\* Mutant of TargetProgress: forcedEpNum ?? epNum, a forced 0 is sent.
TargetProgressNullish(forcedEpNum, epNum) ==
    IF forcedEpNum # NaN THEN forcedEpNum ELSE epNum

\* forcedEpNum || epNum
TargetProgress(forcedEpNum, epNum) ==
    IF TruthyNumber(forcedEpNum) THEN forcedEpNum ELSE epNum

\* Mutant of IsCompleted: completion only past the episode count.
IsCompletedPast(progress, episodeCount) ==
    progress > 0 /\ progress > episodeCount

\* progress > 0 && progress == episodeCount
IsCompleted(progress, episodeCount) ==
    progress > 0 /\ progress = episodeCount

\* Mutant of UpdatedAnime: the episode count is left as it was.
UpdatedAnimeStaleCount(anime, rep) ==
    [anime EXCEPT !.epProgress = rep.progress]

\* anime after "anime.epProgress = progress; anime.epCount = episodeCount ?? 0"
UpdatedAnime(anime, rep) ==
    [anime EXCEPT !.epProgress = rep.progress,
                  !.epCount = IF rep.episodeCount = Null THEN 0 ELSE rep.episodeCount]

\* Mutant of BindFileName: the binding is written on every synchronization.
BindFileNameAlways(cfg, anime, fileName) ==
    SetFileBinding(cfg, anime.libID,
                   ToLowerCase(ParseFansubFilename(fileName).data.title))

\* Mutant of BindFileName: the parsed title is bound without lower-casing.
BindFileNameRaw(cfg, anime, fileName) ==
    IF ~TruthyString(GetFileBinding(cfg, anime.libID))
    THEN SetFileBinding(cfg, anime.libID, ParseFansubFilename(fileName).data.title)
    ELSE cfg

\* if (!Kitsu.getFileBinding(anime.libID)) Kitsu.setFileBinding(...)
BindFileName(cfg, anime, fileName) ==
    IF ~TruthyString(GetFileBinding(cfg, anime.libID))
    THEN SetFileBinding(cfg, anime.libID,
                        ToLowerCase(ParseFansubFilename(fileName).data.title))
    ELSE cfg

\* parseFansubFilename(fileName).title.toLowerCase() is reached with a name
\* the parser does not decode: there is no title to lower-case and
\* saveAnimeProgress throws.
BindingThrows(cfg, anime, rep, fileName) ==
    /\ ~IsCompleted(rep.progress, rep.episodeCount)
    /\ ~TruthyString(GetFileBinding(cfg, anime.libID))
    /\ ~ParseFansubFilename(fileName).ok

\* Config.getKitsuProp('cache')[cacheIndex] = anime
WriteBack(cfg, index, anime) == [cfg EXCEPT !.cache[index] = anime]

\* The configuration saveAnimeProgress leaves in memory.
SavedProgress(cfg, anime, index, rep, fileName) ==
    IF IsCompleted(rep.progress, rep.episodeCount)
    THEN RemoveAnimeFromCache(cfg, UpdatedAnime(anime, rep))
    ELSE WriteBack(BindFileName(cfg, anime, fileName), index, UpdatedAnime(anime, rep))

\* Config.save()
ConfigSave(cfg) == cfg

\* ------------------------------------------------------------- actions

\* watchAnime up to validateCachedAnime: create the watched directory,
\* filter the cache with the episode name, validate the result.
ResolveEntry(epName, fileEpNumStr, forcedEpNumStr) ==
    /\ pc = "idle"
    /\ UNCHANGED parser
    /\ runs < MaxRuns
    /\ args' = [epName |-> epName, fileEpNumStr |-> fileEpNumStr,
                forcedEpNumStr |-> forcedEpNumStr]
    /\ pre' = Snapshot
    /\ config' = saved
    /\ mkdirCalled' = TryCreateWatchedDir(watchedDir).created
    /\ watchedDir' = TryCreateWatchedDir(watchedDir).dir
    /\ cachedAnime' = FilterCache(saved.cache, epName)
    /\ LET how == ValidateCachedAnime(cachedAnime')
       IN  IF how = "valid"
           THEN /\ validAnime' = cachedAnime'[1]
                /\ cacheIndex' = FindIndex(saved.cache, cachedAnime'[1])
                /\ errorChain' = <<>>
                /\ outcome' = "none"
                /\ pc' = "resolveFile"
           ELSE /\ errorChain' = IF how = "AmbiguousEntries"
                                 THEN EntryErrorChain(cachedAnime')
                                 ELSE <<>>
                /\ outcome' = how
                /\ pc' = "done"
                /\ UNCHANGED <<validAnime, cacheIndex>>
    /\ UNCHANGED <<saved, remote, workingDir, fileTitle, fansubFileNames,
                   patch, reply, updateCalls, runs>>

\* watchAnime from the file binding to the check of the filtered files.
ResolveFile ==
    /\ pc = "resolveFile"
    /\ UNCHANGED parser
    /\ fileTitle' = FileTitle(config, validAnime, args.epName)
    /\ \E listing \in Listings(FilterFansubFilenames(ReadDir(workingDir, watchedDir),
                                                      fileTitle', args.fileEpNumStr)) :
          /\ fansubFileNames' = listing
          /\ LET how == ValidateFansubFilenames(listing)
             IN  IF how = "valid"
                 THEN /\ pc' = "update"
                      /\ UNCHANGED <<outcome, errorChain>>
                 ELSE /\ outcome' = how
                      /\ errorChain' = IF how = "AmbiguousFiles"
                                       THEN FileErrorChain(listing)
                                       ELSE <<>>
                      /\ pc' = "done"
    /\ UNCHANGED <<config, saved, world, args, cachedAnime, validAnime, cacheIndex,
                   patch, reply, updateCalls, mkdirCalled, pre, runs>>

\* A rejected call is tried again.
AfterUpdateAnimeRetry(succeeded) == IF succeeded THEN "save" ELSE "update"

\* Where saveAnimeProgress goes after the awaited Kitsu.updateAnime: on to
\* its next statement, or out of the invocation with the rejection, which
\* nothing catches.
AfterUpdateAnime(succeeded) == IF succeeded THEN "save" ELSE "done"

\* saveAnimeProgress: the awaited Kitsu.updateAnime call answers.
UpdateAnime ==
    /\ pc = "update"
    /\ UNCHANGED parser
    /\ patch' = [id |-> validAnime.libID,
                 progress |-> TargetProgress(ToNumber(args.forcedEpNumStr),
                                             ToNumber(args.fileEpNumStr))]
    /\ updateCalls' = updateCalls + 1
    /\ \E rep \in RemoteReplies(patch'.progress) :
          /\ reply' = rep
          /\ remote' = [remote EXCEPT ![validAnime.libID] = rep.progress]
    /\ pc' = AfterUpdateAnime(TRUE)
    /\ UNCHANGED <<config, saved, workingDir, watchedDir, outcome, args, frame,
                   errorChain, mkdirCalled, pre, runs>>

\* saveAnimeProgress: the awaited Kitsu.updateAnime call throws.
UpdateAnimeFails ==
    /\ pc = "update"
    /\ UNCHANGED parser
    /\ patch' = [id |-> validAnime.libID,
                 progress |-> TargetProgress(ToNumber(args.forcedEpNumStr),
                                             ToNumber(args.fileEpNumStr))]
    /\ updateCalls' = updateCalls + 1
    /\ outcome' = "RemoteUpdateFailure"
    /\ pc' = AfterUpdateAnime(FALSE)
    /\ UNCHANGED <<config, saved, world, args, frame, reply, errorChain,
                   mkdirCalled, pre, runs>>

\* saveAnimeProgress after the call: update the clone, evict or bind and
\* write back, save the configuration.
SaveAnimeProgress ==
    /\ pc = "save"
    /\ UNCHANGED parser
    /\ ~BindingThrows(config, validAnime, reply, fansubFileNames[1])
    /\ validAnime' = UpdatedAnime(validAnime, reply)
    /\ config' = SavedProgress(config, validAnime, cacheIndex, reply,
                               fansubFileNames[1])
    /\ saved' = ConfigSave(config')
    /\ pc' = "move"
    /\ UNCHANGED <<world, outcome, args, cachedAnime, cacheIndex, fileTitle,
                   fansubFileNames, patch, reply, errorChain, updateCalls,
                   mkdirCalled, pre, runs>>

\* saveAnimeProgress after the call, the matched file name not decoding:
\* the clone is updated, the binding cannot be derived, and the invocation
\* ends before the write-back, the save and the move.
SaveAnimeProgressThrows ==
    /\ pc = "save"
    /\ UNCHANGED parser
    /\ BindingThrows(config, validAnime, reply, fansubFileNames[1])
    /\ validAnime' = UpdatedAnime(validAnime, reply)
    /\ outcome' = "ParseError"
    /\ pc' = "done"
    /\ UNCHANGED <<config, saved, world, args, cachedAnime, cacheIndex, fileTitle,
                   fansubFileNames, patch, reply, errorChain, updateCalls,
                   mkdirCalled, pre, runs>>

\* moveFileToWatchedDir: renameSync moves the file.
MoveFileToWatchedDir ==
    /\ pc = "move"
    /\ UNCHANGED parser
    /\ workingDir' = workingDir \ {fansubFileNames[1]}
    /\ watchedDir' = [watchedDir EXCEPT !.files = @ \cup {fansubFileNames[1]}]
    /\ outcome' = "ok"
    /\ pc' = "done"
    /\ UNCHANGED <<config, saved, remote, args, frame, patch, reply, errorChain,
                   updateCalls, mkdirCalled, pre, runs>>

\* moveFileToWatchedDir: renameSync throws.
MoveFileFails ==
    /\ pc = "move"
    /\ UNCHANGED parser
    /\ outcome' = "RelocationFailure"
    /\ pc' = "done"
    /\ UNCHANGED <<config, saved, world, args, frame, patch, reply, errorChain,
                   updateCalls, mkdirCalled, pre, runs>>

\* The process ends; the next invocation starts from the saved configuration.
Exit ==
    /\ pc = "done"
    /\ UNCHANGED parser
    /\ pc' = "idle"
    /\ runs' = runs + 1
    /\ config' = saved
    /\ outcome' = "none"
    /\ args' = NoArgs
    /\ cachedAnime' = <<>>
    /\ validAnime' = NoAnime
    /\ cacheIndex' = 0
    /\ fileTitle' = Undefined
    /\ fansubFileNames' = <<>>
    /\ patch' = NoPatch
    /\ reply' = NoReply
    /\ errorChain' = <<>>
    /\ updateCalls' = 0
    /\ mkdirCalled' = FALSE
    /\ pre' = [saved |-> saved, remote |-> remote, workingDir |-> workingDir,
               watchedDir |-> watchedDir]
    /\ UNCHANGED <<saved, world>>

\* ------------------------------------------- the parser on its own

\* File names of the supported shape "[fansub] title - token tail".
Fansubs == {<<"G">>, <<"S","u","b","-","1">>}
Titles  == {<<"A">>, <<"S","h","o","w"," ","T","i","t","l","e">>, <<"A"," ","S","2">>}
Tokens  ==
    {<<"0","7">>, <<"S","0","1","E","0","7">>,
     <<"0","7","v","2">>, <<"1","1","2","v","3">>, <<"0","0","0","7","v","2">>,
     <<"0","7","V","2">>}
Tails   ==
    {<<".","m","k","v">>,
     <<" ","[","7","2","0","p","]",".","m","k","v">>,
     <<" ","(","1","0","8","0","p",")",".","m","k","v">>}
Releases ==
    [fansub : Fansubs, title : Titles, token : Tokens, tail : Tails]

FileNameOf(r) ==
    <<"[">> \o r.fansub \o <<"]", " ">> \o r.title \o <<" ", "-", " ">>
        \o r.token \o r.tail

ParseInit ==
    /\ ConfigInit
    /\ release \in Releases
    /\ parsed = NoParse

\* parseFansubFilename(name) is called on the file name.
ParseFile ==
    /\ parsed = NoParse
    /\ release # NoRelease
    /\ parsed' = ParseFansubFilename(FileNameOf(release))
    /\ UNCHANGED <<config, saved, world, pc, outcome, args, frame, patch, reply,
                   errorChain, updateCalls, mkdirCalled, pre, runs, release>>

ParseNext == ParseFile

SpecParse == ParseInit /\ [][ParseNext]_vars

Next ==
    \/ \E epName \in EpNames, fileEpNumStr \in FileEpNumStrs,
          forcedEpNumStr \in ForcedEpNumStrs :
            ResolveEntry(epName, fileEpNumStr, forcedEpNumStr)
    \/ ResolveFile
    \/ UpdateAnime
    \/ UpdateAnimeFails
    \/ SaveAnimeProgress
    \/ SaveAnimeProgressThrows
    \/ MoveFileToWatchedDir
    \/ MoveFileFails
    \/ Exit

Spec == Init /\ [][Next]_vars

\* ================================================================ claims

\* The invocation has run saveAnimeProgress to its end.
Synchronized ==
    pc = "move" \/ (pc = "done" /\ outcome \in {"ok", "RelocationFailure"})

\* The awaited remote update of this invocation returned and the steps
\* after it have run.
RemoteUpdateSucceeded ==
    pc = "move" \/ (pc = "done" /\ updateCalls = 1
                                /\ outcome # "RemoteUpdateFailure")

\* The reply of the remote update reports the series complete.
ReplyCompletes ==
    reply.progress > 0 /\ reply.progress = reply.episodeCount

LibIDsOf(cache) == {cache[i].libID : i \in 1..Len(cache)}

\* The entries of a cache other than the one of a library id, in order.
Others(cache, libID) == SelectSeq(cache, LAMBDA c : c.libID # libID)

\* ----------------------------------------------------------------- C1
\* C1 (completion eviction): after a synchronization whose remote update
\* returned confirmedProgress > 0 equal to totalEpisodeCount, the persisted
\* cache holds no entry with that libraryId, every other entry is still
\* there, and the binding store holds for that id what it held before.
CompletionEviction ==
    (Synchronized /\ ReplyCompletes) =>
        /\ patch.id \notin LibIDsOf(saved.cache)
        /\ saved.cache = Others(pre.saved.cache, patch.id)
        /\ saved.fileBindings = pre.saved.fileBindings

\* An entry one episode short of its count is completed and evicted.
CompletionEvictionWitness ==
    /\ Synchronized /\ ReplyCompletes
    /\ patch.id \in LibIDsOf(pre.saved.cache)
    /\ pre.saved.cache[cacheIndex].epProgress = pre.saved.cache[cacheIndex].epCount - 1
    /\ reply.progress = pre.saved.cache[cacheIndex].epCount
    /\ Len(pre.saved.cache) = 3

\* ----------------------------------------------------------------- C2
\* C2 (binding stickiness): once a binding exists for a libraryId, no step
\* of any later synchronization changes it, whatever title the matched
\* file name parses to.
BindingStickiness ==
    [][\A id \in LibIDs :
          saved.fileBindings[id] # Undefined =>
              saved.fileBindings'[id] = saved.fileBindings[id]]_vars

\* A synchronization of a bound entry whose matched file parses to a title
\* other than the binding.
BindingStickinessWitness ==
    /\ Synchronized /\ ~ReplyCompletes
    /\ pre.saved.fileBindings[patch.id] # Undefined
    /\ ToLowerCase(ParseFansubFilename(fansubFileNames[1]).data.title)
          # pre.saved.fileBindings[patch.id]
    /\ saved.fileBindings[patch.id] = pre.saved.fileBindings[patch.id]

\* ----------------------------------------------------------------- C3
\* C3 (target progress): the progress sent to the remote update for the
\* resolved entry is the forced episode number when that is given and
\* non-zero, and the file episode number otherwise.
ForcedGiven ==
    /\ args.forcedEpNumStr # <<>>
    /\ \E i \in 1..Len(args.forcedEpNumStr) : args.forcedEpNumStr[i] # "0"
    /\ \A i \in 1..Len(args.forcedEpNumStr) : IsDigit(args.forcedEpNumStr[i])

TargetProgressSelection ==
    updateCalls > 0 =>
        /\ patch.id = validAnime.libID
        /\ patch.progress = IF ForcedGiven
                            THEN DecimalValue(args.forcedEpNumStr)
                            ELSE DecimalValue(args.fileEpNumStr)

\* A forced number of 0 falls back to the file episode number.
TargetProgressSelectionWitness ==
    /\ updateCalls > 0
    /\ args.forcedEpNumStr = <<"0">>
    /\ args.fileEpNumStr = <<"7">>
    /\ patch.progress = 7
\* ----------------------------------------------------------------- C4
\* The positions of the cache entries watchAnime's filter selects.
MatchingEntries(cache, epName) ==
    {i \in 1..Len(cache) : AnimeMatches(cache[i], epName)}

\* Nothing the invocation tracks has changed since it started: no remote
\* update, no cache entry or binding written, no file moved.
NothingChanged ==
    /\ updateCalls = 0
    /\ remote = pre.remote
    /\ saved = pre.saved
    /\ config = pre.saved
    /\ workingDir = pre.workingDir
    /\ watchedDir.files = pre.watchedDir.files

\* C4 (entry ambiguity is never auto-resolved): whenever two or more cache
\* entries match the search term the invocation ends with AmbiguousEntries,
\* the diagnostic lists the title of every matching entry, none is picked,
\* and nothing the invocation tracks has changed.
AmbiguityNeverResolved ==
    (pc # "idle" /\ Cardinality(MatchingEntries(pre.saved.cache, args.epName)) >= 2) =>
        /\ pc = "done"
        /\ outcome = "AmbiguousEntries"
        /\ {errorChain[i] : i \in 1..Len(errorChain)}
              = {pre.saved.cache[i].jpTitle :
                    i \in MatchingEntries(pre.saved.cache, args.epName)}
        /\ Len(errorChain) = Cardinality(MatchingEntries(pre.saved.cache, args.epName))
        /\ validAnime = NoAnime
        /\ NothingChanged

\* Two entries match and both titles are listed.
AmbiguityNeverResolvedWitness ==
    /\ pc = "done"
    /\ outcome = "AmbiguousEntries"
    /\ args.epName = <<"c">>
    /\ errorChain = << <<"C","d">>, <<"C","e">> >>

FilesResolved ==
    pc \in {"update", "save", "move"}
        \/ (pc = "done" /\ outcome \notin {"EntryNotFound", "AmbiguousEntries"})

StartsWithBracketedTag(name) ==
    /\ Len(name) >= 3
    /\ name[1] = "["
    /\ \E j \in 3..Len(name) : name[j] = "]"

\* "- 0N" for a single-digit episode number N, "- NN" otherwise.
EpisodeRendering(epNumStr) ==
    IF DecimalValue(epNumStr) < 10
    THEN <<"-", " ", "0", Digits[DecimalValue(epNumStr) + 1]>>
    ELSE <<"-", " ">> \o epNumStr

\* C6 (candidate file filtering): the filter returns exactly the regular
\* files of the working directory whose name starts with a bracketed tag,
\* contains the search term as a case-insensitive substring and contains
\* the literal "- 0N" / "- NN" rendering of the episode number; episode 12
\* does not select a file numbered 112, and of "[G] A - 07.mkv" and
\* "[G] B - 07.mkv" the term "a" with episode 7 selects exactly the first.
CandidateFileFiltering ==
    FilesResolved =>
        /\ {fansubFileNames[i] : i \in 1..Len(fansubFileNames)}
              = {f \in pre.workingDir :
                    /\ StartsWithBracketedTag(f)
                    /\ Includes(ToLowerCase(f), ToLowerCase(fileTitle))
                    /\ Includes(f, EpisodeRendering(args.fileEpNumStr))}
        /\ \A i, j \in 1..Len(fansubFileNames) :
              fansubFileNames[i] = fansubFileNames[j] => i = j
        /\ (args.fileEpNumStr = <<"1","2">>) =>
              \A i \in 1..Len(fansubFileNames) : fansubFileNames[i] # FileCe112
        /\ (/\ {FileA07, FileB07} \subseteq pre.workingDir
            /\ fileTitle = <<"a">>
            /\ args.fileEpNumStr = <<"7">>) => fansubFileNames = <<FileA07>>

\* The example of the claim: both files listed, term "a", episode 7.
CandidateFileFilteringWitness ==
    /\ FilesResolved
    /\ {FileA07, FileB07, FileNoTag} \subseteq pre.workingDir
    /\ fileTitle = <<"a">>
    /\ args.fileEpNumStr = <<"7">>
    /\ fansubFileNames = <<FileA07>>

\* ----------------------------------------------------------------- C7
\* C7 (resolution failures are fatal and change nothing): no matching
\* cache entry ends the invocation with EntryNotFound, no matching file
\* with FileNotFound, several matching files with AmbiguousFiles; in each
\* of these outcomes the remote update was never called, the cache and the
\* binding store are unchanged and no file has been moved.
ResolutionFailures ==
    /\ (pc # "idle" /\ Len(cachedAnime) = 0) =>
          (pc = "done" /\ outcome = "EntryNotFound")
    /\ (FilesResolved /\ Len(fansubFileNames) = 0) =>
          (pc = "done" /\ outcome = "FileNotFound")
    /\ (FilesResolved /\ Len(fansubFileNames) > 1) =>
          (pc = "done" /\ outcome = "AmbiguousFiles")
    /\ (outcome \in {"EntryNotFound", "FileNotFound", "AmbiguousFiles"}) =>
          (pc = "done" /\ NothingChanged)

\* Two files match the term and the episode number.
ResolutionFailuresWitness ==
    /\ pc = "done"
    /\ outcome = "AmbiguousFiles"
    /\ {fansubFileNames[i] : i \in 1..Len(fansubFileNames)} = {FileCd07, FileHCd07}
    /\ NothingChanged

\* ----------------------------------------------------------------- C8
\* C8 (cache matching is case-insensitive): an entry is selected if and
\* only if the search term, compared without regard to letter case, is a
\* substring of its original title, its localized title or a synonym.
CaseInsensitiveEntryMatching ==
    (pc # "idle") =>
        \A i \in 1..Len(pre.saved.cache) :
            LET a    == pre.saved.cache[i]
                term == ToLowerCase(args.epName)
            IN  (\E j \in 1..Len(cachedAnime) : cachedAnime[j] = a)
                    <=> \/ Includes(ToLowerCase(a.jpTitle), term)
                        \/ Includes(ToLowerCase(a.enTitle), term)
                        \/ \E syn \in a.synonyms : Includes(ToLowerCase(syn), term)
\* ----------------------------------------------------------------- C9
\* C9 (write-back of a non-completing synchronization): when the remote
\* update succeeds and completion is not detected, the persisted cache has
\* the same length and the same entries at every other position, and the
\* position of the resolved entry holds an entry with the same libraryId
\* whose episodeProgress is confirmedProgress and whose episodeCount is
\* totalEpisodeCount, or 0 when the remote returned none; an entry leaves
\* the cache only when completion is detected.
WriteBackOfProgress ==
    /\ (RemoteUpdateSucceeded /\ ~ReplyCompletes) =>
          /\ Len(saved.cache) = Len(pre.saved.cache)
          /\ \A i \in 1..Len(saved.cache) :
                i # cacheIndex => saved.cache[i] = pre.saved.cache[i]
          /\ cacheIndex \in 1..Len(saved.cache)
          /\ saved.cache[cacheIndex].libID = pre.saved.cache[cacheIndex].libID
          /\ saved.cache[cacheIndex].libID = patch.id
          /\ saved.cache[cacheIndex].epProgress = reply.progress
          /\ saved.cache[cacheIndex].epCount =
                IF reply.episodeCount = Null THEN 0 ELSE reply.episodeCount
    /\ (LibIDsOf(saved.cache) # LibIDsOf(pre.saved.cache)) =>
          (Synchronized /\ ReplyCompletes)

\* The ordinary path: the remote knows no episode count, the entry stays
\* and its count becomes 0.
WriteBackOfProgressWitness ==
    /\ Synchronized /\ ~ReplyCompletes
    /\ reply.episodeCount = Null
    /\ reply.progress = 12
    /\ pre.saved.cache[cacheIndex].epCount = 12
    /\ saved.cache[cacheIndex].epCount = 0
    /\ saved.cache[cacheIndex].epProgress = 12

\* ---------------------------------------------------------------- C10
\* The text between the release-group tag and the " - " that precedes the
\* episode number.
TitleBetweenTagAndEpisode(name) ==
    LET close  == CHOOSE j \in 1..Len(name) :
                     name[j] = "]" /\ \A k \in 1..(j - 1) : name[k] # "]"
        hyphen == CHOOSE h \in 1..(Len(name) - 2) :
                     /\ SubSeq(name, h, h + 2) = <<" ", "-", " ">>
                     /\ \A k \in (h + 1)..(Len(name) - 2) :
                           SubSeq(name, k, k + 2) # <<" ", "-", " ">>
    IN  SubSeq(name, close + 2, hyphen - 1)

ProgressBound(cache) ==
    \A i \in 1..Len(cache) :
        cache[i].epCount # 0 => cache[i].epProgress <= cache[i].epCount

\* The reply itself reports no more progress than the count it reports.
ReplyWithinCount(rep) ==
    (rep.episodeCount # Null /\ rep.episodeCount # 0) =>
        rep.progress <= rep.episodeCount

\* C11 as stated (progress bound invariant): in every cache persisted at
\* the end of an invocation, after any sequence of invocations starting
\* from a cache that satisfies it, every entry whose episodeCount is known
\* satisfies episodeProgress <= episodeCount.
ProgressBoundAsStated ==
    (pc = "done") => ProgressBound(saved.cache)

\* C11 as amended: a persisted cache that satisfies the bound still
\* satisfies it after every step of an invocation whose remote reply
\* reports confirmedProgress <= totalEpisodeCount when it reports a count;
\* the synchronizer stores the two numbers of the reply as they are.
ProgressBoundPreserved ==
    [][(ProgressBound(saved.cache) /\ ReplyWithinCount(reply))
          => ProgressBound(saved'.cache)]_vars

\* A forced episode number below the known count has been written back.
ProgressBoundPreservedWitness ==
    /\ Synchronized /\ ~ReplyCompletes
    /\ ReplyWithinCount(reply)
    /\ reply.episodeCount = 7
    /\ saved.cache[cacheIndex].epProgress = 2
    /\ saved.cache[cacheIndex].epCount = 7
    /\ ProgressBound(pre.saved.cache)
    /\ ProgressBound(saved.cache)

\* ---------------------------------------------------------------- C12
\* The matched file has been moved into the watched directory by this
\* invocation.
FileMoved ==
    /\ workingDir # pre.workingDir
    /\ watchedDir.files # pre.watchedDir.files

\* C12 (relocation comes last and its failure is the only partial-failure
\* state): the file is renamed only after the remote update succeeded and
\* the configuration was persisted; if the rename fails, the remote
\* progress and the persisted cache keep the update and the file stays in
\* the working directory; no other outcome of an invocation leaves the
\* remote or the cache updated while the file is not moved.
RelocationComesLast ==
    /\ (pc # "idle" /\ FileMoved) =>
          /\ pc = "done" /\ outcome = "ok"
          /\ updateCalls = 1
          /\ remote[patch.id] = reply.progress
          /\ saved = config
          /\ fansubFileNames[1] \in watchedDir.files \ workingDir
    /\ (pc = "done" /\ outcome = "RelocationFailure") =>
          /\ remote[patch.id] = reply.progress
          /\ saved = config
          /\ IF ReplyCompletes
             THEN patch.id \notin LibIDsOf(saved.cache)
             ELSE saved.cache[cacheIndex].epProgress = reply.progress
          /\ fansubFileNames[1] \in workingDir \ watchedDir.files
    /\ (pc = "done" /\ outcome # "RelocationFailure"
            /\ (remote # pre.remote \/ saved # pre.saved)) => FileMoved

\* ---------------------------------------------------------------- C13
\* The token of a release is NN followed by a version suffix vM: two to
\* four digits, "v", one digit.
VersionSuffixed(token) ==
    /\ Len(token) \in 4..6
    /\ \A i \in 1..(Len(token) - 2) : IsDigit(token[i])
    /\ token[Len(token) - 1] = "v"
    /\ IsDigit(token[Len(token)])

\* C13 (version-suffixed episode tokens): for a file name of the supported
\* shape whose episode token is NNvM, parse succeeds, episodeNumber is the
\* integer value of NN and paddedEpisodeNumber is the digit string NN.
VersionSuffixedTokens ==
    (parsed # NoParse /\ VersionSuffixed(release.token)) =>
        LET NN == SubSeq(release.token, 1, Len(release.token) - 2)
        IN  /\ parsed.ok
            /\ parsed.data.epNum = DecimalValue(NN)
            /\ parsed.data.paddedEpNum = NN

\* ---------------------------------------------------------------- C14
\* C14 (relocation idempotence): the watched subdirectory is created if
\* and only if it does not exist when the invocation starts; on a second
\* or later run the existence check short-circuits the creation, and the
\* files already in the watched directory are left as they were.
WatchedDirIdempotence ==
    /\ pc # "idle" =>
          /\ mkdirCalled <=> ~pre.watchedDir.exists
          /\ watchedDir.exists
          /\ pre.watchedDir.files \subseteq watchedDir.files
          /\ watchedDir.files \ pre.watchedDir.files \subseteq pre.workingDir
    /\ (pc # "idle" /\ runs >= 1) => (pre.watchedDir.exists /\ ~mkdirCalled)
    /\ runs >= 1 => watchedDir.exists

\* A second run that ends without moving a file: the directory made by the
\* first run and the file moved into it are as the first run left them.
WatchedDirIdempotenceWitness ==
    /\ pc = "done" /\ runs = 1
    /\ pre.watchedDir.exists /\ ~mkdirCalled
    /\ pre.watchedDir.files # {}
    /\ watchedDir = pre.watchedDir

\* ---------------------------------------------------------------- C15
\* C15 (a remote failure leaves the local state untouched): the remote
\* update is called at most once per invocation, and when that call fails
\* the invocation ends there with the failure, while the cache entry (the
\* clone is as the entry still), the rest of the cache, the binding store
\* and the place of the matched file are what they were when the
\* invocation started.
RemoteFailureLeavesLocalState ==
    /\ updateCalls <= 1
    /\ outcome = "RemoteUpdateFailure" =>
          /\ pc = "done"
          /\ updateCalls = 1
          /\ reply = NoReply
          /\ saved = pre.saved
          /\ config = pre.saved
          /\ validAnime = saved.cache[cacheIndex]
          /\ workingDir = pre.workingDir
          /\ watchedDir.files = pre.watchedDir.files
          /\ fansubFileNames[1] \in workingDir

\* The call that would have moved entry "3" from 11 to 12 fails on a run
\* that follows a synchronized one.
RemoteFailureLeavesLocalStateWitness ==
    /\ pc = "done" /\ outcome = "RemoteUpdateFailure"
    /\ runs = 1
    /\ pre.watchedDir.files # {}
    /\ patch = [id |-> "3", progress |-> 12]
    /\ saved.cache[cacheIndex].epProgress = 11
    /\ fansubFileNames = <<FileCe12>>

====
